---- MODULE Spec2Model ----
(***************************************************************************)
(* Concurrent execution core of the benchmark runner:                      *)
(*   - the budgeted limiter  (core/throttle: createLimiter)                *)
(*   - the retry wrapper     (core/runner:   withRetry)                    *)
(*   - the run orchestrator  (core/runner:   runBenchmark)                 *)
(*                                                                         *)
(* Time.  Date.now() is read at one place only (runNext) and every stored  *)
(* time is only ever compared with the present instant.  All stored times  *)
(* are therefore kept relative to the present: now is 0, a stamp taken d   *)
(* ms ago is -d, a timer due in d ms is +d.  Tick(d) lets d ms pass by     *)
(* shifting every stored time.  Stamps older than the window are clipped   *)
(* at Floor (they are stale for every later comparison), overdue timers    *)
(* at 0.                                                                   *)
(***************************************************************************)
EXTENDS Integers, Sequences, FiniteSets, TLC

\* ---------------------------------------------------------------- bounds
MaxItems == 3          \* schedule calls explored per limiter
TickMs == 30000        \* granularity of the passage of time

\* ------------------------------------------------------ program constants
windowMs == 60000
PollMs == 250

Floor == 0 - (windowMs + TickMs)
Items == 1..MaxItems
\* configurations and token estimates explored: a budget of 0, 1 or 2 slots
\* and requests; estimates that fit together, that fit only alone, and that
\* exceed the smaller token budget on their own
ConcurrencyChoices == {0, 1, 2}
RpmChoices == {0, 1, 2}
TpmChoices == {2, 3}
TokenChoices == {1, 3}

Max2(a, b) == IF a >= b THEN a ELSE b
Min2(a, b) == IF a <= b THEN a ELSE b

VARIABLES
  opts,                 \* LimiterOptions
  queue,                \* queue: entries [id, tokens]; id stands for fn, resolve, reject
  active,               \* active
  requestsTimestamps,   \* requestsTimestamps
  tokensTimestamps,     \* tokensTimestamps: entries [t, tokens]
  immediates,           \* pending setImmediate(runNext) callbacks
  timers,               \* pending setTimeout(runNext, 250): due times, in arming order
  task,                 \* per item: position of its fn / state of its promise
  admitted,             \* history of item.fn() invocations: [id, t, tokens]
  run,                  \* runBenchmark: options and position
  unit,                 \* per unit: state of the scheduled task body
  results,              \* results
  completed,            \* completed
  progress,             \* the calls of options.onProgress, in order
  summary,              \* summarize(results) as put in the report
  traces                \* files of <runDir>/traces: name -> unit that wrote it last

limVars == <<opts, queue, active, requestsTimestamps, tokensTimestamps,
             immediates, timers, task, admitted>>
outVars == <<progress, summary, traces>>
runVars == <<run, unit, results, completed, progress, summary, traces>>
vars == <<opts, queue, active, requestsTimestamps, tokensTimestamps,
          immediates, timers, task, admitted, run, unit, results, completed,
          progress, summary, traces>>

\* Date.now(), relative to the present instant
now == 0

\* ------------------------------------------------------- retry wrapper
\* a missing property (undefined)
undefined == 0 - 1

\* failures of client.complete: an error object with its status, the status
\* of its response and its message.  A per-call timeout is raised by the
\* HTTP client configured at createOpenRouterClient as a connection error:
\* it has neither a status nor a response.
Err429 == [status |-> 429, response |-> undefined, message |-> "429"]
Err500 == [status |-> undefined, response |-> 500, message |-> "500"]
Err400 == [status |-> 400, response |-> 500, message |-> "400"]
ErrTimeout == [status |-> undefined, response |-> undefined,
               message |-> "Request timed out."]
NoErr == [status |-> undefined, response |-> undefined, message |-> "undefined"]
Failures == {Err429, Err500, Err400, ErrTimeout}

\* (err as any)?.status ?? (err as any)?.response?.status
StatusOf(err) == IF err.status # undefined THEN err.status ELSE err.response

Retriable_ClientErrors(status) ==
  status = 429 \/ (status # undefined /\ status >= 400)

Retriable(status) == status = 429 \/ (status # undefined /\ status >= 500)

GiveUp_OneEarly(retriable, attempt, retries) == ~retriable \/ attempt >= retries

GiveUp(retriable, attempt, retries) == ~retriable \/ attempt > retries

\* `throw err` in the catch of withRetry
Thrown_Wrapped(err) == [err EXCEPT !.message = "retries exhausted"]

Thrown(err) == err

NextDelay_Uncapped(delay) == delay * 2

NextDelay(delay) == Min2(8000, delay * 2)

JitterChoices == {0, 199}

\* ------------------------------------------------------- orchestrator
Units == 1..(run.nModels * run.nTests)
ModelOf(i) == ((i - 1) \div run.nTests) + 1
TestOf(i) == ((i - 1) % run.nTests) + 1

\* the suite explored: odd tests are "exact", even tests "llm-judge";
\* test t has a prompt of PromptLen(t) characters
EvalType(t) == IF t % 2 = 1 THEN "exact" ELSE "llm-judge"
PromptLen(t) == IF t % 2 = 1 THEN 5 ELSE 400

estimateTokens(length) == Max2(50, ((length + 3) \div 4) + 50)

\* scores in thousandths: 1000 is 1.0
ScoreChoices == {0, 1000}

SuccessResult(i, score) ==
  [unit |-> i, model |-> ModelOf(i), testId |-> TestOf(i),
   response |-> "text", score |-> score, error |-> NoErr.message]

FailureResult_NoMessage(i, err) ==
  [unit |-> i, model |-> ModelOf(i), testId |-> TestOf(i),
   response |-> "", score |-> 0, error |-> NoErr.message]

FailureResult(i, err) ==
  [unit |-> i, model |-> ModelOf(i), testId |-> TestOf(i),
   response |-> "", score |-> 0, error |-> err.message]

PushResult_DropsFailures(rs, res) ==
  IF res.error # NoErr.message THEN rs ELSE Append(rs, res)

PushResult(rs, res) == Append(rs, res)

\* total = options.models.length * options.suite.length
Total == run.nModels * run.nTests

\* options.onProgress?.({ completed, total, last: res })
Report_BeforeIncrement(pr, done, total, res) ==
  Append(pr, [completed |-> done - 1, total |-> total, last |-> res])

Report(pr, done, total, res) ==
  Append(pr, [completed |-> done, total |-> total, last |-> res])

\* Promise.all(tasks) has fulfilled: every task's then-callback has run
AllSettled_Any == \E i \in Units : unit[i].pc = "done"

AllSettled == \A i \in Units : unit[i].pc = "done"

\* ------------------------------------------------------------- traces
\* names are sequences of characters
Digits == <<"1", "2", "3", "4">>
SafeChars == {"a", "m", "t", "1", "2", "3", "4", "_", ".", "-"}

\* s.replace(/[^a-zA-Z0-9_.-]/g, "_")
sanitize(str) == [k \in DOMAIN str |-> IF str[k] \in SafeChars THEN str[k] ELSE "_"]

\* const isFail = Boolean(r.error) || r.score < 1
IsFail(r) == r.error # NoErr.message \/ r.score < 1000

TraceName(r) ==
  sanitize(run.modelNames[r.model]) \o <<"_", "_">> \o sanitize(run.testIds[r.testId])
    \o (IF IsFail(r) THEN <<"_", "_", "F", "A", "I", "L">> ELSE <<>>)
    \o <<".", "j", "s", "o", "n">>

\* writeFileSync(join(runDir, "traces", name), ...): creates or overwrites
writeTrace(fs, r) ==
  [n \in DOMAIN fs \cup {TraceName(r)} |-> IF n = TraceName(r) THEN r.unit ELSE fs[n]]

\* ---------------------------------------------------------- aggregator
\* numbers produced by a division are kept as fractions in lowest terms
RECURSIVE Gcd(_, _)
Gcd(a, b) == IF b = 0 THEN a ELSE Gcd(b, a % b)

Div(a, b) == LET g == Gcd(a, b) IN [num |-> a \div g, den |-> b \div g]
Zero == [num |-> 0, den |-> 1]

RECURSIVE Tally_Overwrite(_, _)
Tally_Overwrite(rs, byModel) ==
  IF rs = <<>> THEN byModel
  ELSE LET r == Head(rs)
           old == IF r.model \in DOMAIN byModel THEN byModel[r.model]
                  ELSE [tests |-> 0, sum |-> 0]
           new == [tests |-> old.tests + 1, sum |-> r.score * (old.tests + 1)]
       IN Tally_Overwrite(Tail(rs),
                [k \in DOMAIN byModel \cup {r.model} |->
                   IF k = r.model THEN new ELSE byModel[k]])

\* the loop of summarize: byModel[key].tests += 1; byModel[key].sum += r.score
RECURSIVE Tally(_, _)
Tally(rs, byModel) ==
  IF rs = <<>> THEN byModel
  ELSE LET r == Head(rs)
           old == IF r.model \in DOMAIN byModel THEN byModel[r.model]
                  ELSE [tests |-> 0, sum |-> 0]
           new == [tests |-> old.tests + 1, sum |-> old.sum + r.score]
       IN Tally(Tail(rs),
                [k \in DOMAIN byModel \cup {r.model} |->
                   IF k = r.model THEN new ELSE byModel[k]])

RECURSIVE SumScores_PassesOnly(_)
SumScores_PassesOnly(rs) ==
  IF rs = <<>> THEN 0
  ELSE (IF Head(rs).score = 1000 THEN 1000 ELSE 0) + SumScores_PassesOnly(Tail(rs))

\* results.reduce((acc, r) => acc + r.score, 0)
RECURSIVE SumScores(_)
SumScores(rs) == IF rs = <<>> THEN 0 ELSE Head(rs).score + SumScores(Tail(rs))

summarize(rs) ==
  LET byModel == Tally(rs, [k \in {} |-> 0])
  IN [byModel |-> [k \in DOMAIN byModel |->
                     [tests |-> byModel[k].tests,
                      avgScore |-> IF byModel[k].tests # 0
                                   THEN Div(byModel[k].sum, byModel[k].tests)
                                   ELSE Zero]],
      overallAvg |-> IF Len(rs) # 0 THEN Div(SumScores(rs), Len(rs)) ELSE Zero]

\* no summary computed yet
NoSummary == [byModel |-> [k \in {} |-> 0], overallAvg |-> [num |-> 0, den |-> 0]]

\* the fn handed to schedule is invoked: t0, withRetry, first client.complete
StartFn(i) ==
  IF run.pc = "none" THEN unit
  ELSE [unit EXCEPT ![i] = [@ EXCEPT !.pc = "call", !.attempt = 0,
                                     !.delay = 500, !.calls = 1]]

\* ------------------------------------------------------------- limiter
pruneRequests_Clears(ts) == <<>>

RECURSIVE pruneRequests(_)
pruneRequests(ts) ==
  IF Len(ts) > 0 /\ now - ts[1] > windowMs THEN pruneRequests(Tail(ts)) ELSE ts

pruneTokens_Never(ts) == ts

RECURSIVE pruneTokens(_)
pruneTokens(ts) ==
  IF Len(ts) > 0 /\ now - ts[1].t > windowMs THEN pruneTokens(Tail(ts)) ELSE ts

RECURSIVE SumTokens(_)
SumTokens(ts) == IF ts = <<>> THEN 0 ELSE ts[1].tokens + SumTokens(Tail(ts))

SlotBusy_OffByOne == active > opts.maxConcurrent

SlotBusy == active >= opts.maxConcurrent

RequestsExhausted_OffByOne(pendingRequests) ==
  pendingRequests > opts.maxRequestsPerMinute

RequestsExhausted(pendingRequests) ==
  pendingRequests >= opts.maxRequestsPerMinute

TokensExhausted_IgnoresItem(tokensUsed, item) ==
  tokensUsed > opts.maxTokensPerMinute

TokensExhausted(tokensUsed, item) ==
  tokensUsed + item.tokens > opts.maxTokensPerMinute

Throttled_RequestsOnly(pendingRequests, tokensUsed, item) ==
  RequestsExhausted(pendingRequests)

Throttled(pendingRequests, tokensUsed, item) ==
  RequestsExhausted(pendingRequests) \/ TokensExhausted(tokensUsed, item)

Requeue_AtBack(item, q) == Append(q, item)

Requeue(item, q) == <<item>> \o q

\* the time at which a timer set now with the retry delay is due
PollDue_Late == now + (2 * PollMs)

PollDue == now + PollMs

ArmPoll_Forgotten(tms) == tms

ArmPoll(tms) == Append(tms, PollDue)

\* requestsTimestamps.push(now)
RecordRequest(reqs) == Append(reqs, now)

\* tokensTimestamps.push({ t: now, tokens: item.tokens })
RecordTokens_Default(toks, item) == Append(toks, [t |-> now, tokens |-> 500])

RecordTokens(toks, item) == Append(toks, [t |-> now, tokens |-> item.tokens])

\* One execution of runNext up to its await; imm and tms are the pending
\* callbacks left once the trigger of this execution has been consumed.
RunNext(imm, tms) ==
  IF SlotBusy \/ queue = <<>>
  THEN /\ immediates' = imm
       /\ timers' = tms
       /\ UNCHANGED <<queue, active, requestsTimestamps, tokensTimestamps,
                      task, admitted, unit>>
  ELSE LET item == Head(queue)
           rest == Tail(queue)
           reqs == pruneRequests(requestsTimestamps)
           toks == pruneTokens(tokensTimestamps)
           pendingRequests == Len(reqs)
           tokensUsed == SumTokens(toks)
       IN IF Throttled(pendingRequests, tokensUsed, item)
          THEN /\ queue' = Requeue(item, rest)
               /\ timers' = ArmPoll(tms)
               /\ immediates' = imm
               /\ requestsTimestamps' = reqs
               /\ tokensTimestamps' = toks
               /\ UNCHANGED <<active, task, admitted, unit>>
          ELSE /\ queue' = rest
               /\ active' = active + 1
               /\ requestsTimestamps' = RecordRequest(reqs)
               /\ tokensTimestamps' = RecordTokens(toks, item)
               /\ task' = [task EXCEPT ![item.id] = "running"]
               /\ admitted' = Append(admitted,
                                [id |-> item.id, t |-> now, tokens |-> item.tokens])
               /\ unit' = StartFn(item.id)
               /\ immediates' = imm
               /\ timers' = tms

\* a setImmediate(runNext) callback runs
RunNextImmediate ==
  /\ immediates > 0
  /\ RunNext(immediates - 1, timers)
  /\ UNCHANGED <<opts, run, results, completed, outVars>>

\* a setTimeout(runNext, 250) callback runs (not before it is due)
RunNextTimer ==
  /\ timers # <<>>
  /\ Head(timers) <= now
  /\ RunNext(immediates, Tail(timers))
  /\ UNCHANGED <<opts, run, results, completed, outVars>>

NextId == Cardinality({i \in DOMAIN task : task[i] # "none"}) + 1

\* schedule(fn, estimatedTokens)
Schedule(estimatedTokens) ==
  /\ run.pc = "none"
  /\ NextId <= MaxItems
  /\ queue' = Append(queue, [id |-> NextId, tokens |-> estimatedTokens])
  /\ task' = [task EXCEPT ![NextId] = "queued"]
  /\ immediates' = immediates + 1
  /\ UNCHANGED <<opts, active, requestsTimestamps, tokensTimestamps, timers,
                 admitted, runVars>>

Continue_NoWake(i, outcome) ==
  /\ task[i] = "running"
  /\ task' = [task EXCEPT ![i] = outcome]
  /\ active' = active - 1
  /\ UNCHANGED <<opts, queue, requestsTimestamps, tokensTimestamps, timers, admitted,
                 immediates>>

\* runNext resumes after `await item.fn()`: resolve or reject, then finally
Continue(i, outcome) ==
  /\ task[i] = "running"
  /\ task' = [task EXCEPT ![i] = outcome]
  /\ active' = active - 1
  /\ immediates' = immediates + 1
  /\ UNCHANGED <<opts, queue, requestsTimestamps, tokensTimestamps, timers, admitted>>

\* a caller's task fulfils / rejects (any fn handed to schedule)
FnReturn(i) ==
  /\ run.pc = "none"
  /\ Continue(i, "resolved")
  /\ UNCHANGED runVars

FnThrow_Refunds(i) ==
  /\ run.pc = "none"
  /\ task[i] = "running"
  /\ task' = [task EXCEPT ![i] = "rejected"]
  /\ active' = active - 1
  /\ immediates' = immediates + 1
  /\ requestsTimestamps' =
       SubSeq(requestsTimestamps, 1, Len(requestsTimestamps) - 1)
  /\ tokensTimestamps' = SubSeq(tokensTimestamps, 1, Len(tokensTimestamps) - 1)
  /\ UNCHANGED <<opts, queue, timers, admitted, runVars>>

FnThrow(i) ==
  /\ run.pc = "none"
  /\ Continue(i, "rejected")
  /\ UNCHANGED runVars

\* ---------------------------------------------------------------- time
Older(t, d) == Max2(t - d, Floor)
Sooner(t, d) == Max2(t - d, 0)

Tick(d) ==
  /\ requestsTimestamps' =
       [k \in DOMAIN requestsTimestamps |-> Older(requestsTimestamps[k], d)]
  /\ tokensTimestamps' =
       [k \in DOMAIN tokensTimestamps |->
          [tokensTimestamps[k] EXCEPT !.t = Older(@, d)]]
  /\ admitted' = [k \in DOMAIN admitted |-> [admitted[k] EXCEPT !.t = Older(@, d)]]
  /\ timers' = [k \in DOMAIN timers |-> Sooner(timers[k], d)]
  /\ unit' = [i \in DOMAIN unit |-> [unit[i] EXCEPT !.due = Sooner(@, d)]]
  /\ UNCHANGED <<opts, queue, active, immediates, task, run, results, completed,
                 outVars>>

\* ---------------------------------------------- orchestrator: actions
\* the task body returns res: runNext resumes (resolve, finally), then the
\* .then callback appends the result and reports progress
Deliver(i, res, failedIn, err, raised, attempt) ==
  /\ traces' = writeTrace(traces, res)
  /\ Continue(i, "resolved")
  /\ results' = PushResult(results, res)
  /\ completed' = completed + 1
  /\ progress' = Report(progress, completed + 1, Total, res)
  /\ UNCHANGED summary
  /\ unit' = [unit EXCEPT ![i] = [@ EXCEPT !.pc = "done", !.failedIn = failedIn,
                                           !.err = err, !.raised = raised,
                                           !.attempt = attempt]]
  /\ UNCHANGED run

\* runBenchmark up to `await Promise.all(tasks)`
RunBegin ==
  /\ run.pc = "init"
  /\ IF run.apiKey
     THEN /\ queue' = [i \in Units |->
                         [id |-> i, tokens |-> estimateTokens(PromptLen(TestOf(i)))]]
          /\ task' = [i \in DOMAIN task |-> IF i \in Units THEN "queued" ELSE task[i]]
          /\ immediates' = immediates + Cardinality(Units)
          /\ run' = [run EXCEPT !.pc = "scheduled", !.runDir = TRUE]
     ELSE /\ run' = [run EXCEPT !.pc = "failed", !.runDir = TRUE]
          /\ UNCHANGED <<queue, task, immediates>>
  /\ UNCHANGED <<opts, active, requestsTimestamps, tokensTimestamps, timers,
                 admitted, unit, results, completed, outVars>>

\* client.complete fulfils; an "exact" test is scored at once, an
\* "llm-judge" test starts the judge's completion call
CallSucceeds(i, score) ==
  /\ run.pc = "scheduled"
  /\ unit[i].pc = "call"
  /\ IF EvalType(TestOf(i)) = "exact"
     THEN Deliver(i, SuccessResult(i, score), "none", NoErr, NoErr, unit[i].attempt)
     ELSE /\ unit' = [unit EXCEPT ![i].pc = "eval"]
          /\ UNCHANGED <<queue, active, requestsTimestamps, tokensTimestamps,
                         immediates, timers, task, admitted, run, results, completed,
                         outVars>>
  /\ UNCHANGED opts

\* client.complete rejects with err: the catch of withRetry
CallFails(i, err, jitter) ==
  /\ run.pc = "scheduled"
  /\ unit[i].pc = "call"
  /\ LET attempt == unit[i].attempt + 1
         status == StatusOf(err)
         retriable == Retriable(status)
     IN IF GiveUp(retriable, attempt, run.retries)
        THEN /\ Deliver(i, FailureResult(i, Thrown(err)), "complete", Thrown(err),
                        err, attempt)
        ELSE /\ unit' = [unit EXCEPT ![i] = [@ EXCEPT !.pc = "backoff",
                            !.attempt = attempt, !.err = err, !.raised = err,
                            !.due = now + unit[i].delay + jitter]]
             /\ UNCHANGED <<queue, active, requestsTimestamps, tokensTimestamps,
                            immediates, timers, task, admitted, run, results,
                            completed, outVars>>
  /\ UNCHANGED opts

BackoffDone_Readmits(i) ==
  /\ run.pc = "scheduled"
  /\ unit[i].pc = "backoff"
  /\ unit[i].due <= now
  /\ unit' = [unit EXCEPT ![i] = [@ EXCEPT !.pc = "call",
                                          !.delay = NextDelay(unit[i].delay),
                                          !.calls = unit[i].calls + 1]]
  /\ requestsTimestamps' = Append(requestsTimestamps, now)
  /\ tokensTimestamps' = Append(tokensTimestamps, [t |-> now, tokens |-> 0])
  /\ UNCHANGED <<opts, queue, active, immediates, timers, task, admitted, run,
                 results, completed, outVars>>

\* the backoff timer of withRetry fires: delay doubles, fn is invoked again
BackoffDone(i) ==
  /\ run.pc = "scheduled"
  /\ unit[i].pc = "backoff"
  /\ unit[i].due <= now
  /\ unit' = [unit EXCEPT ![i] = [@ EXCEPT !.pc = "call",
                                          !.delay = NextDelay(unit[i].delay),
                                          !.calls = unit[i].calls + 1]]
  /\ UNCHANGED <<limVars, run, results, completed, outVars>>

\* the judge's completion call fulfils: the score is parsed from its text
EvalReturns(i, score) ==
  /\ run.pc = "scheduled"
  /\ unit[i].pc = "eval"
  /\ Deliver(i, SuccessResult(i, score), "none", NoErr, NoErr, unit[i].attempt)
  /\ UNCHANGED opts

EvalThrows_Reinvokes(i, err) ==
  /\ run.pc = "scheduled"
  /\ unit[i].pc = "eval"
  /\ unit' = [unit EXCEPT ![i] = [@ EXCEPT !.pc = "call", !.calls = unit[i].calls + 1]]
  /\ UNCHANGED <<limVars, run, results, completed, outVars>>

\* the judge's completion call rejects: the catch of the task body
EvalThrows(i, err) ==
  /\ run.pc = "scheduled"
  /\ unit[i].pc = "eval"
  /\ Deliver(i, FailureResult(i, err), "eval", err, err, unit[i].attempt)
  /\ UNCHANGED opts

\* Promise.all(tasks) fulfils: summary, report, return
Finalize ==
  /\ run.pc = "scheduled"
  /\ AllSettled
  /\ summary' = summarize(results)
  /\ run' = [run EXCEPT !.pc = "done", !.report = TRUE]
  /\ UNCHANGED <<limVars, unit, results, completed, progress, traces>>

\* ------------------------------------------------------- specification
OutInit ==
  /\ progress = <<>>
  /\ summary = NoSummary
  /\ traces = [n \in {} |-> 0]

NoUnit == [pc |-> "idle", attempt |-> 0, delay |-> 0, due |-> 0, calls |-> 0,
           failedIn |-> "none", err |-> NoErr, raised |-> NoErr]

LimiterInit(n) ==
  /\ queue = <<>>
  /\ active = 0
  /\ requestsTimestamps = <<>>
  /\ tokensTimestamps = <<>>
  /\ immediates = 0
  /\ timers = <<>>
  /\ task = [i \in 1..n |-> "none"]
  /\ admitted = <<>>

Init ==
  /\ opts \in [maxConcurrent : ConcurrencyChoices,
               maxRequestsPerMinute : RpmChoices,
               maxTokensPerMinute : TpmChoices]
  /\ LimiterInit(MaxItems)
  /\ run = [pc |-> "none", nModels |-> 0, nTests |-> 0, retries |-> 0,
            apiKey |-> FALSE, runDir |-> FALSE, report |-> FALSE,
            modelNames |-> <<>>, testIds |-> <<>>]
  /\ unit = [i \in Items |-> NoUnit]
  /\ results = <<>>
  /\ completed = 0
  /\ OutInit

Next ==
  \/ \E tok \in TokenChoices : Schedule(tok)
  \/ RunNextImmediate
  \/ RunNextTimer
  \/ \E i \in Items : FnReturn(i)
  \/ \E i \in Items : FnThrow(i)
  \/ Tick(TickMs)

Spec == Init /\ [][Next]_vars

\* runBenchmark(options) is about to be called
MaxUnits == 2
RetryChoices == {0, 2}

\* run shapes explored: every models x tests matrix of at most MaxUnits units
RunShapes == {sh \in (1..MaxUnits) \X (1..MaxUnits) : sh[1] * sh[2] <= MaxUnits}

\* limiter options explored: one slot; two slots with one request a minute;
\* two slots with a token budget that one long and one short prompt exceed
RunLimits ==
  {[maxConcurrent |-> 1, maxRequestsPerMinute |-> 60, maxTokensPerMinute |-> 120000],
   [maxConcurrent |-> 2, maxRequestsPerMinute |-> 1, maxTokensPerMinute |-> 120000],
   [maxConcurrent |-> 2, maxRequestsPerMinute |-> 60, maxTokensPerMinute |-> 200]}

RunInit ==
  /\ opts \in RunLimits
  /\ LimiterInit(MaxUnits)
  /\ \E sh \in RunShapes, retries \in RetryChoices, apiKey \in BOOLEAN :
       run = [pc |-> "init", nModels |-> sh[1], nTests |-> sh[2],
              retries |-> retries, apiKey |-> apiKey, runDir |-> FALSE,
              report |-> FALSE,
              modelNames |-> [m \in 1..sh[1] |-> <<"m", Digits[m]>>],
              testIds |-> [t \in 1..sh[2] |-> <<"t", Digits[t]>>]]
  /\ unit = [i \in 1..MaxUnits |-> NoUnit]
  /\ results = <<>>
  /\ completed = 0
  /\ OutInit

RunNextStep ==
  \/ RunBegin
  \/ RunNextImmediate
  \/ RunNextTimer
  \/ \E i \in Units, score \in ScoreChoices : CallSucceeds(i, score)
  \/ \E i \in Units, err \in Failures, jitter \in JitterChoices :
        CallFails(i, err, jitter)
  \/ \E i \in Units : BackoffDone(i)
  \/ \E i \in Units, score \in ScoreChoices : EvalReturns(i, score)
  \/ \E i \in Units, err \in Failures : EvalThrows(i, err)
  \/ Finalize
  \/ Tick(TickMs)

RunSpec == RunInit /\ [][RunNextStep]_vars

\* The event loop runs every pending callback, every admitted task settles
\* and time passes.
Fairness ==
  /\ WF_vars(RunNextImmediate)
  /\ WF_vars(RunNextTimer)
  /\ \A i \in Items : WF_vars(FnReturn(i) \/ FnThrow(i))
  /\ WF_vars(Tick(TickMs))

LiveSpec == Init /\ [][Next]_vars /\ Fairness

\* ------------------------------------------- prompts above the token budget
\* runs of one model whose token budget is below the estimate of every
\* prompt (51), or below the estimate of the second test's prompt only
\* (100), with a third test scheduled behind it; and a run of two tests
\* whose budget admits both
OversizeCases ==
  {[tests |-> MaxUnits + 1, maxConcurrent |-> 1, maxTokensPerMinute |-> 51],
   [tests |-> MaxUnits + 1, maxConcurrent |-> 1, maxTokensPerMinute |-> 100],
   [tests |-> MaxUnits + 1, maxConcurrent |-> 2, maxTokensPerMinute |-> 100],
   [tests |-> 2, maxConcurrent |-> 2, maxTokensPerMinute |-> 120000]}

OversizeInit ==
  /\ LimiterInit(MaxUnits + 1)
  /\ \E c \in OversizeCases, retries \in RetryChoices :
       /\ opts = [maxConcurrent |-> c.maxConcurrent, maxRequestsPerMinute |-> 60,
                  maxTokensPerMinute |-> c.maxTokensPerMinute]
       /\ run = [pc |-> "init", nModels |-> 1, nTests |-> c.tests,
                 retries |-> retries, apiKey |-> TRUE, runDir |-> FALSE,
                 report |-> FALSE,
                 modelNames |-> <<(<<"m", Digits[1]>>)>>,
                 testIds |-> [t \in 1..c.tests |-> <<"t", Digits[t]>>]]
  /\ unit = [i \in 1..(MaxUnits + 1) |-> NoUnit]
  /\ results = <<>>
  /\ completed = 0
  /\ OutInit

OversizeSpec == OversizeInit /\ [][RunNextStep]_vars

\* ------------------------------------------- long retry sequences
\* one model, an "exact" and an "llm-judge" test, both admitted at once, and
\* enough retries for the backoff to reach its cap
MaxRetries == 6

RetryInit ==
  /\ opts \in {[maxConcurrent |-> 2, maxRequestsPerMinute |-> 60,
                maxTokensPerMinute |-> 120000]}
  /\ LimiterInit(MaxUnits)
  /\ run = [pc |-> "init", nModels |-> 1, nTests |-> 2,
            retries |-> MaxRetries, apiKey |-> TRUE, runDir |-> FALSE,
            report |-> FALSE,
            modelNames |-> <<(<<"m", Digits[1]>>)>>,
            testIds |-> [t \in 1..2 |-> <<"t", Digits[t]>>]]
  /\ unit = [i \in 1..MaxUnits |-> NoUnit]
  /\ results = <<>>
  /\ completed = 0
  /\ OutInit

RetryNext ==
  \/ RunBegin
  \/ RunNextImmediate
  \/ \E i \in Units, score \in ScoreChoices : CallSucceeds(i, score)
  \/ \E i \in Units, err \in Failures, jitter \in JitterChoices :
        CallFails(i, err, jitter)
  \/ \E i \in Units : BackoffDone(i)
  \/ \E i \in Units, score \in ScoreChoices : EvalReturns(i, score)
  \/ \E i \in Units, err \in Failures : EvalThrows(i, err)
  \/ Finalize
  \/ Tick(TickMs)

RetrySpec == RetryInit /\ [][RetryNext]_vars

\* ------------------------------------------- trace files on their own
\* the results of a run whose model names and test ids are any short strings
\* over a letter, a slash and an underscore
MaxNameLen == 2
NameChars == {"a", "/", "_"}
Names == UNION {[1..n -> NameChars] : n \in 1..MaxNameLen}

TraceInit ==
  /\ opts \in {[maxConcurrent |-> 1, maxRequestsPerMinute |-> 60,
                maxTokensPerMinute |-> 120000]}
  /\ LimiterInit(MaxUnits)
  /\ \E sh \in {<<1, 2>>, <<2, 1>>} :
     \E mn \in [1..sh[1] -> Names], ti \in [1..sh[2] -> Names] :
       run = [pc |-> "traces", nModels |-> sh[1], nTests |-> sh[2],
              retries |-> 0, apiKey |-> TRUE, runDir |-> TRUE, report |-> FALSE,
              modelNames |-> mn, testIds |-> ti]
  /\ unit = [i \in 1..MaxUnits |-> NoUnit]
  /\ results = <<>>
  /\ completed = 0
  /\ OutInit

\* a unit's task body builds its result and writes the trace
TraceWrite(i, score) ==
  /\ run.pc = "traces"
  /\ unit[i].pc = "idle"
  /\ traces' = writeTrace(traces, SuccessResult(i, score))
  /\ results' = PushResult(results, SuccessResult(i, score))
  /\ unit' = [unit EXCEPT ![i].pc = "done"]
  /\ UNCHANGED <<limVars, run, completed, progress, summary>>

TraceNext == \E i \in Units, score \in ScoreChoices : TraceWrite(i, score)

TraceSpec == TraceInit /\ [][TraceNext]_vars

\* ------------------------------------------- the aggregator on its own
\* summarize applied to the result collection of a finished run: one result
\* per unit, in any order of settlement.  A run over an empty suite has
\* models and no units.  Collections of at most MaxTests + 2 results.
MaxTests == 2
SumShapes == {sh \in (1..2) \X (0..MaxTests) : sh[1] * sh[2] <= MaxTests + 2}
SumScoreChoices == {0, 500, 1000}

SumInit ==
  /\ opts \in {[maxConcurrent |-> 1, maxRequestsPerMinute |-> 60,
                maxTokensPerMinute |-> 120000]}
  /\ LimiterInit(MaxUnits)
  /\ \E sh \in SumShapes :
       run = [pc |-> "summarize", nModels |-> sh[1], nTests |-> sh[2],
              retries |-> 0, apiKey |-> TRUE, runDir |-> TRUE, report |-> FALSE,
              modelNames |-> [m \in 1..sh[1] |-> <<"m", Digits[m]>>],
              testIds |-> [t \in 1..sh[2] |-> <<"t", Digits[t]>>]]
  /\ unit = [i \in 1..MaxUnits |-> NoUnit]
  /\ \E score \in [Units -> SumScoreChoices] :
       results = [i \in Units |-> SuccessResult(i, score[i])]
  /\ completed = Len(results)
  /\ OutInit

\* two units settled in the other order
Swap(k) ==
  /\ run.pc = "summarize"
  /\ k \in 1..(Len(results) - 1)
  /\ results' = [results EXCEPT ![k] = results[k + 1], ![k + 1] = results[k]]
  /\ UNCHANGED <<limVars, run, unit, completed, outVars>>

\* const summary = summarize(results)
Summarize ==
  /\ run.pc = "summarize"
  /\ summary' = summarize(results)
  /\ UNCHANGED <<limVars, run, unit, results, completed, progress, traces>>

SumNext ==
  \/ \E k \in 1..(MaxTests * 2) : Swap(k)
  \/ Summarize

SumSpec == SumInit /\ [][SumNext]_vars

\* ================================================================ claims
\* tasks admitted and not yet settled
Executing == {i \in DOMAIN task : task[i] = "running"}

\* admissions whose admission time lies in the trailing window ending now
InWindow == {k \in DOMAIN admitted : now - admitted[k].t <= windowMs}

RECURSIVE SumOver(_, _)
SumOver(f, S) ==
  IF S = {} THEN 0
  ELSE LET k == CHOOSE x \in S : TRUE IN f[k] + SumOver(f, S \ {k})

WindowTokens == SumOver([k \in DOMAIN admitted |-> admitted[k].tokens], InWindow)

\* C1: the number of tasks admitted and not yet settled never exceeds
\* maxConcurrent; the active counter equals that number and is never
\* negative, so with maxConcurrent = 1 no two executions overlap.
C1_ConcurrencyBound ==
  /\ active = Cardinality(Executing)
  /\ active >= 0
  /\ Cardinality(Executing) <= opts.maxConcurrent

\* C1 witness: every slot of a two-slot limiter is taken and an item waits
C1_Witness ==
  /\ opts.maxConcurrent = 2
  /\ Cardinality(Executing) = 2
  /\ queue # <<>>

\* C2: at every instant the number of tasks admitted in the trailing
\* 60-second window is at most maxRequestsPerMinute.
C2_RequestBudget == Cardinality(InWindow) <= opts.maxRequestsPerMinute

\* C2 witness: the window is full again after an earlier admission aged out
C2_Witness ==
  /\ opts.maxRequestsPerMinute = 2
  /\ Cardinality(InWindow) = 2
  /\ Len(admitted) = 3

\* C3: at every instant the estimated tokens of the tasks admitted in the
\* trailing 60-second window sum to at most maxTokensPerMinute, and the token
\* log an admission check reads accounts for every admission of the window
\* (no two items are admitted against the same pre-admission total).
C3_TokenBudget ==
  /\ WindowTokens <= opts.maxTokensPerMinute
  /\ SumTokens(pruneTokens(tokensTimestamps)) = WindowTokens

\* C3 witness: two admissions of the window use up the token budget exactly
\* while a third item waits
C3_Witness ==
  /\ Cardinality(InWindow) = 2
  /\ WindowTokens = opts.maxTokensPerMinute
  /\ queue # <<>>
  /\ timers # <<>>

InQueue(i) == \E p \in DOMAIN queue : queue[p].id = i

\* item i waits in the queue of a limiter whose budgets can be met by i and by
\* every item ahead of it
Satisfiable(i) ==
  /\ opts.maxConcurrent >= 1
  /\ opts.maxRequestsPerMinute >= 1
  /\ \E p \in DOMAIN queue :
       /\ queue[p].id = i
       /\ \A q \in 1..p : queue[q].tokens <= opts.maxTokensPerMinute

\* C4: with satisfiable budgets, settling tasks and passing time, every item
\* handed to schedule is eventually admitted and its promise eventually
\* settles; an item leaves the queue only by being admitted.
C4_NoItemDropped ==
  /\ \A i \in Items : Satisfiable(i) ~> (task[i] \in {"resolved", "rejected"})
  /\ [][\A i \in Items :
         (InQueue(i) /\ ~InQueue(i)') =>
            /\ task'[i] = "running"
            /\ Len(admitted') = Len(admitted) + 1
            /\ admitted'[Len(admitted')].id = i]_vars

\* C4 witness: the last item has settled after a throttled wait: an earlier
\* admission has aged out of a one-request window
C4_Witness ==
  /\ opts.maxRequestsPerMinute = 1
  /\ task[MaxItems] \in {"resolved", "rejected"}
  /\ InWindow # DOMAIN admitted

\* C10: tasks start in the order they were scheduled: the k-th admission is
\* the k-th scheduled item, so no item is admitted before an earlier one.
C10_FifoAdmission == \A k \in DOMAIN admitted : admitted[k].id = k

\* C10 witness: the head was throttled on tokens and put back while the item
\* behind it would fit the budget, and earlier items have been admitted
C10_Witness ==
  /\ Len(queue) >= 2
  /\ timers # <<>>
  /\ admitted # <<>>
  /\ ~SlotBusy
  /\ ~RequestsExhausted(Len(pruneRequests(requestsTimestamps)))
  /\ TokensExhausted(SumTokens(pruneTokens(tokensTimestamps)), queue[1])
  /\ ~TokensExhausted(SumTokens(pruneTokens(tokensTimestamps)), queue[2])

\* --------------------------------------------------- claims on the run
ResultsOf(i) == {k \in DOMAIN results : results[k].unit = i}

ResultsOfPair(m, t) ==
  {k \in DOMAIN results : results[k].model = m /\ results[k].testId = t}

\* the unit's completion call failed terminally (withRetry threw)
FailedTerminally(i) == unit[i].pc = "done" /\ unit[i].failedIn = "complete"

\* the failure carries a numeric status equal to 429 or >= 500
CarriesTransientStatus(err) ==
  LET st == IF err.status = undefined THEN err.response ELSE err.status
  IN st # undefined /\ (st = 429 \/ st >= 500)

\* C5: when runBenchmark finishes, results holds exactly one TestResult for
\* each (model, test) pair, so its length is models.length * suite.length.
C5_OneResultPerUnit ==
  run.pc = "done" =>
    /\ Len(results) = run.nModels * run.nTests
    /\ \A m \in 1..run.nModels, t \in 1..run.nTests :
         Cardinality(ResultsOfPair(m, t)) = 1

\* C5 witness: a finished run of two units, one failed and one succeeded
C5_Witness ==
  /\ run.pc = "done"
  /\ Len(results) = 2
  /\ \E k \in DOMAIN results : results[k].error # NoErr.message
  /\ \E k \in DOMAIN results : results[k].error = NoErr.message

\* C6: a unit whose completion call fails terminally is recorded once, with
\* score 0, response "" and the failure's message; its scheduled promise is
\* fulfilled, not rejected; the run does not fail, and when it finishes every
\* unit has been admitted and recorded.
C6_UnitFailureRecorded ==
  /\ \A i \in Units :
       FailedTerminally(i) =>
         /\ task[i] = "resolved"
         /\ Cardinality(ResultsOf(i)) = 1
         /\ \A k \in ResultsOf(i) :
              /\ results[k].score = 0
              /\ results[k].response = ""
              /\ results[k].error = unit[i].err.message
  /\ \A i \in DOMAIN task : task[i] # "rejected"
  /\ run.pc = "done" =>
       \A i \in Units :
         /\ \E k \in DOMAIN admitted : admitted[k].id = i
         /\ Cardinality(ResultsOf(i)) = 1

\* C6 witness: the first unit failed after its retries ran out, the second
\* was admitted after that failure and succeeded, and the run finished
C6_Witness ==
  /\ run.pc = "done"
  /\ run.retries = 2
  /\ Len(results) = 2
  /\ FailedTerminally(results[1].unit)
  /\ unit[results[1].unit].calls = 3
  /\ results[2].error = NoErr.message
  /\ opts.maxConcurrent = 1

\* C7: withRetry invokes the operation at most retries + 1 times; when every
\* invocation failed with status 429 or >= 500 it was invoked exactly
\* retries + 1 times before failing.
C7_RetryBound ==
  \A i \in Units :
    /\ unit[i].calls <= run.retries + 1
    /\ (FailedTerminally(i) /\ CarriesTransientStatus(unit[i].err)) =>
         unit[i].calls = run.retries + 1

\* C7 witness: retries = 2, three invocations, all with a transient status
C7_Witness ==
  \E i \in Units :
    /\ run.retries = 2
    /\ FailedTerminally(i)
    /\ CarriesTransientStatus(unit[i].err)
    /\ unit[i].calls = 3

\* C8: a failure is retried iff it carries status 429 or >= 500: a backoff
\* wait follows only such a failure, such a failure ends the call only when
\* no retry is left, and any other failure ends the call at once, with no
\* further invocation (a single invocation when it is the first failure).
C8_RetryOnlyTransient ==
  \A i \in Units :
    /\ unit[i].pc = "backoff" =>
         CarriesTransientStatus(unit[i].err) /\ unit[i].attempt <= run.retries
    /\ (FailedTerminally(i) /\ CarriesTransientStatus(unit[i].err)) =>
         unit[i].attempt > run.retries
    /\ (FailedTerminally(i) /\ ~CarriesTransientStatus(unit[i].err)) =>
         /\ unit[i].calls = unit[i].attempt
         /\ unit[i].attempt = 1 => unit[i].calls = 1

\* C8 witness: with two retries allowed, a status-400 failure and a failure
\* without status each ended their call after a single invocation
C8_Witness ==
  /\ run.retries = 2
  /\ \E i \in Units :
       FailedTerminally(i) /\ unit[i].err = Err400 /\ unit[i].calls = 1
  /\ \E i \in Units :
       FailedTerminally(i) /\ unit[i].err = ErrTimeout /\ unit[i].calls = 1

\* C9: a per-call timeout is treated as a transient failure: a call that
\* timed out while retries remain is followed by a backoff and another
\* invocation, so it never ends the unit.
C9_TimeoutRetried ==
  \A i \in Units :
    ~(FailedTerminally(i) /\ unit[i].err = ErrTimeout
        /\ unit[i].attempt <= run.retries)
\* C11: runBenchmark finalizes (computes the summary, writes the report)
\* only after every unit of the run has settled and its result has been
\* appended: at that point no unit is queued or executing.  A unit's terminal
\* failure neither finalizes the run early nor makes the run fail: once
\* units are scheduled the run never becomes "failed".
C11_FinalizeAfterAll ==
  /\ (run.pc = "done" \/ run.report \/ summary # NoSummary) =>
       /\ \A i \in Units : /\ unit[i].pc = "done"
                           /\ task[i] = "resolved"
                           /\ Cardinality(ResultsOf(i)) = 1
       /\ Len(results) = Total
       /\ queue = <<>>
       /\ active = 0
  /\ run.pc = "failed" => /\ results = <<>>
                          /\ \A i \in DOMAIN task : task[i] = "none"

\* a finished run whose first settled unit failed terminally while the
\* other unit settled after it
C11_Witness ==
  /\ run.pc = "done"
  /\ Len(results) = 2
  /\ results[1].error # NoErr.message
  /\ results[2].error = NoErr.message

\* C12: onProgress is invoked exactly once per settled unit, after that
\* unit's result has been appended; the k-th invocation reports completed = k
\* and last = the k-th result, every invocation reports the same total =
\* models.length * suite.length, and a finished run has made total invocations.
C12_ProgressCounts ==
  /\ Len(progress) = Len(results)
  /\ Len(progress) = completed
  /\ \A k \in DOMAIN progress :
       /\ progress[k].completed = k
       /\ progress[k].total = Total
       /\ progress[k].last = results[k]
  /\ \A i \in Units :
       Cardinality({k \in DOMAIN progress : progress[k].last.unit = i})
         = (IF unit[i].pc = "done" THEN 1 ELSE 0)
  /\ run.pc = "done" => Len(progress) = Total

\* both units of a run have been reported, the second with completed = total
C12_Witness ==
  /\ Len(progress) = 2
  /\ progress[2].completed = 2
  /\ progress[2].total = 2
  /\ progress[1].last.unit # progress[2].last.unit

\* C13: when the run-fatal error is raised (the API key is missing),
\* runBenchmark has failed before any unit was scheduled and without having
\* produced any output: no run directory, no traces directory, no trace file
\* and no report.
C13_FatalLeavesNoOutput ==
  run.pc = "failed" =>
    /\ \A i \in DOMAIN task : task[i] = "none"
    /\ ~run.runDir
    /\ DOMAIN traces = {}
    /\ ~run.report

\* results of one model, and the exact sum of their scores
OfModel(m) == {k \in DOMAIN results : results[k].model = m}
ScoreSum(S) == SumOver([k \in DOMAIN results |-> results[k].score], S)
Computed == summary # NoSummary

\* q is the exact quotient total / n
IsMean(q, total, n) == q.den > 0 /\ q.num * n = q.den * total

C15_OrderIndependent ==
  [][/\ Computed => summary' = summarize(results')
     /\ Computed => summarize(results) = summary
     /\ summary' # summary => results' = results]_vars

\* a summary computed for one order equals the one of a collection whose
\* first two results, of different models and scores, were then exchanged
C15_Witness ==
  /\ Computed
  /\ Len(results) >= 2
  /\ results[1].unit > results[2].unit
  /\ results[1].model # results[2].model
  /\ results[1].score # results[2].score

\* C16: when withRetry gives up, the value it throws is the very failure
\* raised by the operation's last invocation, unchanged: it is what the unit's
\* failure result records.
C16_ThrowsLastFailure ==
  \A i \in Units :
    FailedTerminally(i) =>
      /\ unit[i].err = unit[i].raised
      /\ \A k \in ResultsOf(i) : results[k].error = unit[i].raised.message

\* a unit that gave up on a non-retriable failure raised by a re-invocation,
\* after an earlier failure that was retried
C16_Witness ==
  \E i \in Units :
    /\ FailedTerminally(i)
    /\ unit[i].calls = 2
    /\ unit[i].raised = Err400

RECURSIVE Pow2(_)
Pow2(n) == IF n = 0 THEN 1 ELSE 2 * Pow2(n - 1)

\* base delay before the k-th retry of one withRetry call
BaseDelay(k) == Min2(8000, 500 * Pow2(k - 1))

\* C17: the timer armed before the k-th retry of a call runs for the base
\* delay min(8000, 500 * 2^(k-1)) plus a jitter in [0, 200); the base delay
\* is non-decreasing in k and at most 8000; each unit's call counts its own
\* attempts and delay from 0 and 500, whatever other units are retrying.
C17_BackoffSchedule ==
  [][\A i \in Units :
       /\ (unit[i].pc = "call" /\ unit'[i].pc = "backoff") =>
            /\ unit'[i].attempt = unit[i].attempt + 1
            /\ unit'[i].due - now \in
                 BaseDelay(unit'[i].attempt)..(BaseDelay(unit'[i].attempt) + 199)
            /\ BaseDelay(unit'[i].attempt) <= 8000
            /\ unit'[i].attempt > 1 =>
                 BaseDelay(unit'[i].attempt - 1) <= BaseDelay(unit'[i].attempt)
       /\ unit'[i].pc = "backoff" => unit'[i].delay = BaseDelay(unit'[i].attempt)
       /\ unit'[i].pc = "call" => unit'[i].delay = BaseDelay(unit'[i].attempt + 1)
       /\ (unit[i].pc = "idle" /\ unit'[i].pc = "call") =>
            unit'[i].attempt = 0 /\ unit'[i].delay = 500]_vars

\* one unit waits for its capped sixth retry while the other waits for its
\* first retry
C17_Witness ==
  \E i, j \in Units :
    /\ unit[i].pc = "backoff" /\ unit[i].attempt = 6 /\ unit[i].delay = 8000
    /\ unit[j].pc = "backoff" /\ unit[j].attempt = 1 /\ unit[j].delay = 500

\* C18: when the completion succeeded and the evaluator then fails, the unit
\* is recorded like a unit failure (score 0, empty response, the evaluator
\* failure's message); the completion is not invoked again once it has
\* succeeded, and the run continues to its end instead of failing.
C18_EvaluatorFailureRecorded ==
  [][\A i \in Units :
       /\ unit[i].pc = "eval" =>
            /\ unit'[i].calls = unit[i].calls
            /\ unit'[i].pc \in {"eval", "done"}
       /\ (unit'[i].pc = "done" /\ unit'[i].failedIn = "eval") =>
            /\ run'.pc \in {"scheduled", "done"}
            /\ \A k \in {n \in DOMAIN results' : results'[n].unit = i} :
                 /\ results'[k].score = 0
                 /\ results'[k].response = ""
                 /\ results'[k].error = unit'[i].err.message
            /\ Cardinality({n \in DOMAIN results' : results'[n].unit = i}) = 1]_vars

\* the judge failed for the first unit to settle; the other unit settled
\* after it and the run finished
C18_Witness ==
  /\ run.pc = "done"
  /\ Len(results) = 2
  /\ unit[results[1].unit].failedIn = "eval"
  /\ results[1].error = Err500.message
  /\ results[1].score = 0

\* the (model name, test id) pair of a result
PairOf(r) == <<run.modelNames[r.model], run.testIds[r.testId]>>

\* C19: trace file names disambiguate units: any two units of a run with
\* distinct (model name, test id) pairs get distinct trace file names, so
\* every written trace is still there, under its own name, written by its
\* own unit.
C19_TraceNamesDistinct ==
  \A j, k \in DOMAIN results :
    PairOf(results[j]) # PairOf(results[k]) =>
      /\ TraceName(results[j]) # TraceName(results[k])
      /\ traces[TraceName(results[j])] = results[j].unit

\* an admission attempt: one run of runNext, from either kind of trigger
Attempt == RunNextImmediate \/ RunNextTimer

\* the attempt found an item waiting and admitted nothing
Refused == Attempt /\ queue # <<>> /\ admitted' = admitted

\* the attempt armed one new timer, due after the retry delay
ArmedPoll ==
  \/ RunNextImmediate /\ timers' = Append(timers, now + PollMs)
  \/ RunNextTimer /\ timers' = Append(Tail(timers), now + PollMs)

\* the attempt armed no timer and scheduled no other trigger
ArmedNothing ==
  \/ RunNextImmediate /\ timers' = timers
  \/ RunNextTimer /\ timers' = Tail(timers) /\ immediates' = immediates

\* C20 as stated: whenever an admission attempt is refused, for any of the
\* three reasons, a further attempt is scheduled after the 250 ms retry delay.
C20_RefusalArmsPoll == [][Refused => ArmedPoll]_vars

\* C20 (amended): an attempt refused because the request budget or the token
\* budget of the window is exhausted schedules a further attempt after the
\* 250 ms retry delay and leaves the item at the head of the queue; an
\* attempt refused because active >= maxConcurrent schedules nothing and
\* leaves the queue as it is.
C20_BudgetRefusalArmsPoll ==
  [][Refused => /\ queue' = queue
                /\ IF active >= opts.maxConcurrent THEN ArmedNothing ELSE ArmedPoll]_vars

\* an item waits at the head of the queue behind a freshly armed retry timer
\* while a slot is free
C20_Witness ==
  /\ queue # <<>>
  /\ active < opts.maxConcurrent
  /\ timers # <<>>
  /\ timers[Len(timers)] = now + PollMs

\* the times of the entries of the token log
TokenTimes == [k \in DOMAIN tokensTimestamps |-> tokensTimestamps[k].t]

\* log (a sequence of times) after the step is log before it without some
\* leading entries, every one of them older than the window
OnlyPruned(before, after) ==
  \E n \in 0..Len(before) :
    /\ after = SubSeq(before, n + 1, Len(before))
    /\ \A k \in 1..n : now - before[k] > windowMs

\* C21: a refused admission attempt leaves the queue with the same items in
\* the same order, leaves the active count unchanged, executes no task and
\* adds no entry to either rate log; the only change it may make to the logs
\* is dropping entries older than 60 s.
C21_RefusalFrame ==
  [][Refused =>
       /\ queue' = queue
       /\ active' = active
       /\ task' = task
       /\ OnlyPruned(requestsTimestamps, requestsTimestamps')
       /\ Len(tokensTimestamps') <= Len(tokensTimestamps)
       /\ \A k \in DOMAIN tokensTimestamps' :
            tokensTimestamps'[k] =
              tokensTimestamps[k + Len(tokensTimestamps) - Len(tokensTimestamps')]
       /\ \A k \in 1..(Len(tokensTimestamps) - Len(tokensTimestamps')) :
            now - tokensTimestamps[k].t > windowMs]_vars

\* just after a refusal: two items still wait in the order of their
\* scheduling, a poll is armed, and the stale entry of the one earlier
\* admission has been pruned from the request log
C21_Witness ==
  /\ Len(queue) = 2
  /\ queue[1].id < queue[2].id
  /\ timers # <<>>
  /\ timers[Len(timers)] = PollDue
  /\ Len(admitted) = 1
  /\ now - admitted[1].t > windowMs
  /\ requestsTimestamps = <<>>

\* the step admits an item
Admission == Len(admitted') = Len(admitted) + 1

\* the two logs have equal length and pairwise equal timestamps
LogsAligned ==
  /\ Len(requestsTimestamps) = Len(tokensTimestamps)
  /\ \A k \in DOMAIN requestsTimestamps : requestsTimestamps[k] = tokensTimestamps[k].t

\* C22: every admission increments the active count by exactly 1 and
\* appends exactly one entry to the request log and one to the token log,
\* both stamped with the admission time, the token entry carrying the item's
\* estimated tokens, and the task body has started only then; in every
\* reachable state the two logs have equal length and pairwise equal times.
C22_AdmissionEffect ==
  /\ []LogsAligned
  /\ [][Admission =>
          LET item == Head(queue)
              n == Len(requestsTimestamps')
          IN /\ active' = active + 1
             /\ queue' = Tail(queue)
             /\ task[item.id] = "queued" /\ task'[item.id] = "running"
             /\ n >= 1 /\ n = Len(tokensTimestamps')
             /\ requestsTimestamps'[n] = now
             /\ tokensTimestamps'[n] = [t |-> now, tokens |-> item.tokens]
             /\ OnlyPruned(requestsTimestamps, SubSeq(requestsTimestamps', 1, n - 1))
             /\ OnlyPruned(TokenTimes,
                           [k \in 1..(n - 1) |-> tokensTimestamps'[k].t])]_vars

\* a second item has just been admitted while the first one's entries are
\* still in the window: two aligned entries in each log, two slots taken
C22_Witness ==
  /\ active = 2
  /\ Len(requestsTimestamps) = 2
  /\ Len(tokensTimestamps) = 2
  /\ requestsTimestamps[2] = now
  /\ requestsTimestamps[1] < now
  /\ tokensTimestamps[2] = [t |-> now, tokens |-> admitted[2].tokens]

\* the step is an admission attempt that reaches the comparison against the
\* request and token budgets: a slot is free and an item waits
Decision == Attempt /\ ~(active >= opts.maxConcurrent) /\ queue # <<>>

NonDecreasing(times) == \A j, k \in DOMAIN times : j <= k => times[j] <= times[k]

\* C23: at every admission decision that compares against the request or
\* token budget, both logs hold no entry older than 60 s, so a refusal is
\* owed to entries of the window only; and in every reachable state the
\* timestamps of each log are in non-decreasing order.
C23_PrunedBeforeDecision ==
  /\ [](NonDecreasing(requestsTimestamps) /\ NonDecreasing(TokenTimes))
  /\ [][Decision =>
          /\ \A k \in DOMAIN requestsTimestamps' :
               now - requestsTimestamps'[k] <= windowMs
          /\ \A k \in DOMAIN tokensTimestamps' :
               now - tokensTimestamps'[k].t <= windowMs
          /\ ~Admission =>
               \/ Len(requestsTimestamps') >= opts.maxRequestsPerMinute
               \/ SumOver([k \in DOMAIN tokensTimestamps' |-> tokensTimestamps'[k].tokens],
                          DOMAIN tokensTimestamps') + Head(queue).tokens
                    > opts.maxTokensPerMinute]_vars

\* a third item has just been admitted: the first admission's stale entry
\* has been pruned, the second one's, still in the window, has been kept
C23_Witness ==
  /\ Len(admitted) = 3
  /\ admitted[3].t = now
  /\ now - admitted[1].t > windowMs
  /\ now - admitted[2].t <= windowMs
  /\ admitted[2].t < now
  /\ requestsTimestamps = <<admitted[2].t, now>>
  /\ Len(tokensTimestamps) = 2

\* admission attempts that are pending: setImmediate callbacks and timers
PendingAttempts == immediates + Len(timers)

\* C24: no lost wake-up: with maxConcurrent >= 1, whenever the queue is
\* non-empty and active < maxConcurrent at least one admission attempt is
\* pending; more strongly, pending attempts + active >=
\* min(queue length + active, maxConcurrent).
C24_NoLostWakeup ==
  opts.maxConcurrent >= 1 =>
    /\ (queue # <<>> /\ active < opts.maxConcurrent) => PendingAttempts >= 1
    /\ PendingAttempts + active >= Min2(Len(queue) + active, opts.maxConcurrent)

\* a task has settled while an item waited behind the one slot, and the one
\* attempt its settlement scheduled is the only one pending
C24_Witness ==
  /\ opts.maxConcurrent = 1
  /\ active = 0
  /\ queue # <<>>
  /\ PendingAttempts = 1
  /\ immediates = 1
  /\ \E i \in DOMAIN task : task[i] \in {"resolved", "rejected"}

\* positions of a unit between its admission and its final result
InFlight == {"call", "backoff", "eval"}

\* admissions of unit i
AdmissionsOf(i) == {k \in DOMAIN admitted : admitted[k].id = i}

\* the step moves unit i on inside its task body: a failed call starts a
\* backoff, a backoff ends in a new call, a completion hands over to the judge
InnerStep(i) ==
  /\ unit[i].pc \in InFlight
  /\ unit'[i].pc \in InFlight
  /\ unit'[i].pc # unit[i].pc

\* C25: a unit's retries and its judge call run inside the unit's single
\* admission: from admission to final result, backoff waits included, the
\* unit holds one concurrency slot, and it has exactly one admission (one
\* request-log and one token-log entry) however many transport calls it
\* makes; a retried call or a judge call changes neither the active count
\* nor the queue nor a rate log.
C25_SingleAdmissionHoldsSlot ==
  /\ [](\A i \in Units :
          /\ unit[i].pc \in InFlight => task[i] = "running"
          /\ Cardinality(AdmissionsOf(i)) =
               (IF task[i] \in {"running", "resolved"} THEN 1 ELSE 0)
          /\ Len(requestsTimestamps) <= Len(admitted)
          /\ Len(tokensTimestamps) <= Len(admitted)
          /\ active = Cardinality({j \in Units : unit[j].pc \in InFlight}))
  /\ [][\A i \in Units :
          InnerStep(i) =>
            /\ active' = active
            /\ queue' = queue
            /\ task' = task
            /\ admitted' = admitted
            /\ requestsTimestamps' = requestsTimestamps
            /\ tokensTimestamps' = tokensTimestamps
            /\ immediates' = immediates
            /\ timers' = timers]_vars

\* the second of two admitted units is at its judge call after a retried
\* completion: three transport calls so far, one admission, and the logs
\* hold one entry for each of the two units
C25_Witness ==
  \E i \in Units :
    /\ unit[i].pc = "eval"
    /\ unit[i].calls = 2
    /\ task[i] = "running"
    /\ Cardinality(AdmissionsOf(i)) = 1
    /\ Len(admitted) = 2
    /\ Len(requestsTimestamps) = 2
    /\ Len(tokensTimestamps) = 2

\* the item at the head of the queue alone exceeds the token budget
OversizeHead == queue # <<>> /\ Head(queue).tokens > opts.maxTokensPerMinute

\* what holds of every step taken while the head is oversize, whatever an
\* admission attempt does about polling: the head is neither admitted nor
\* settled, nothing behind it is admitted, and the run does not finish
HeadStaysBlocked ==
  /\ queue' = queue
  /\ task'[Head(queue).id] = "queued"
  /\ \A k \in DOMAIN queue : task'[queue[k].id] = "queued"
  /\ ~Admission
  /\ run'.pc # "done"

\* C26 as stated: while the item at the head of the queue has estimated
\* tokens above maxTokensPerMinute it is never admitted and never settled,
\* every admission attempt re-queues it and polls again after 250 ms, no
\* item behind it is admitted and runBenchmark never finishes.
C26_OversizeHeadPollsForever ==
  [][OversizeHead => /\ HeadStaysBlocked
                     /\ Attempt => ArmedPoll]_vars

\* C26 (amended): as above, except that only an admission attempt made
\* while a slot is free re-queues the item and polls again after 250 ms; an
\* attempt made while active >= maxConcurrent returns without polling.  A
\* further attempt is always pending while a slot is free.
C26_OversizeHeadBlocksQueue ==
  [][OversizeHead =>
       /\ HeadStaysBlocked
       /\ Attempt => IF active >= opts.maxConcurrent THEN ArmedNothing ELSE ArmedPoll
       /\ active' < opts.maxConcurrent => immediates' + Len(timers') >= 1]_vars

\* the first unit has had its result, the oversize second unit has been
\* polled again after a minute and still heads the queue, and the third
\* unit, which fits the budget, still waits behind it
C26_Witness ==
  /\ OversizeHead
  /\ Len(results) = 1
  /\ Len(queue) = 2
  /\ queue[2].tokens <= opts.maxTokensPerMinute
  /\ requestsTimestamps = <<>>
  /\ timers # <<>>
  /\ timers[Len(timers)] = PollDue

\* the step settles task i
Settles(i) == task[i] = "running" /\ task'[i] # "running"

\* entries of the request log that lie in the window
LoggedInWindow == {j \in DOMAIN requestsTimestamps : now - requestsTimestamps[j] <= windowMs}

\* C27: the settlement of an admitted task, by success or by failure,
\* decrements the active count by 1, settles that item's promise and
\* schedules one admission attempt, and changes nothing else: the queue and
\* both rate logs stay as they are.  Hence every admission of the last 60 s,
\* also one whose task has failed, still has its request and its estimated
\* tokens in the logs.
C27_SettlementFrame ==
  /\ [](/\ Cardinality(LoggedInWindow) = Cardinality(InWindow)
        /\ \A k \in InWindow :
             \E j \in DOMAIN tokensTimestamps :
               /\ requestsTimestamps[j] = admitted[k].t
               /\ tokensTimestamps[j] = [t |-> admitted[k].t, tokens |-> admitted[k].tokens])
  /\ [][\A i \in DOMAIN task :
          Settles(i) =>
            /\ task'[i] \in {"resolved", "rejected"}
            /\ \A j \in DOMAIN task \ {i} : task'[j] = task[j]
            /\ active' = active - 1
            /\ immediates' = immediates + 1
            /\ timers' = timers
            /\ queue' = queue
            /\ requestsTimestamps' = requestsTimestamps
            /\ tokensTimestamps' = tokensTimestamps
            /\ admitted' = admitted]_vars

\* a task failed half a minute ago; no task is active and its request and
\* its tokens are still in the logs
C27_Witness ==
  \E i \in DOMAIN task, k \in InWindow :
    /\ task[i] = "rejected"
    /\ admitted[k].id = i
    /\ admitted[k].t < now
    /\ active = 0
    /\ requestsTimestamps = <<admitted[k].t>>
    /\ tokensTimestamps = <<[t |-> admitted[k].t, tokens |-> admitted[k].tokens]>>

====
